---------------------------- MODULE Spec2Model ----------------------------
(***************************************************************************)
(* Kinetis start-up code (mkl26 startup(), vector table, flash             *)
(* configuration field) together with the linker script that lays out the  *)
(* memory the start-up code initialises.                                   *)
(*                                                                         *)
(* Register values are records of the bitfields the source ORs together;   *)
(* a field holds the suffix of the bitfield constant the source names      *)
(* (MCG_C1_CLKS_External is CLKS |-> "External").  Addresses are byte      *)
(* addresses, words are 4 bytes.                                           *)
(***************************************************************************)
EXTENDS Integers, Sequences, FiniteSets, TLC

(* ------------------------------ bounds --------------------------------- *)

\* largest size in bytes of the .data input sections
MaxDataBytes == 5
\* largest size in bytes of the .bss input sections
MaxBssBytes == 5
\* memory words hold 0..MaxWord
MaxWord == 1
\* largest number of strong handler definitions linked in
MaxStrong == 1

Words == 0..MaxWord

(* ----------------------- flash configuration field --------------------- *)

\* mutant: the two reserved members are left out
flash_configuration_field_type_NoReserved ==
    << [name |-> "backdoor_comparison_key", size |-> 8],
       [name |-> "FPROT", size |-> 4],
       [name |-> "FSEC", size |-> 1],
       [name |-> "FOPT", size |-> 1] >>

\* struct flash_configuration_field_type: its members in declaration order,
\* each with its size in bytes (all are uint8_t, so there is no padding)
flash_configuration_field_type ==
    << [name |-> "backdoor_comparison_key", size |-> 8],
       [name |-> "FPROT", size |-> 4],
       [name |-> "FSEC", size |-> 1],
       [name |-> "FOPT", size |-> 1],
       [name |-> "reserved0", size |-> 1],
       [name |-> "reserved1", size |-> 1] >>

\* the initialiser of flash_config, member by member
flash_config_init ==
    [backdoor_comparison_key |-> <<255, 255, 255, 255, 255, 255, 255, 255>>,
     FPROT |-> <<255, 255, 255, 255>>,
     FSEC |-> <<254>>,
     FOPT |-> <<251>>,
     reserved0 |-> <<255>>,
     reserved1 |-> <<255>>]

RECURSIVE SumSizes(_)
SumSizes(fields) ==
    IF fields = <<>> THEN 0 ELSE Head(fields).size + SumSizes(Tail(fields))

\* sizeof(struct flash_configuration_field_type)
SizeOfFlashConfig == SumSizes(flash_configuration_field_type)

\* offsetof(struct flash_configuration_field_type, member k)
OffsetOfField(k) == SumSizes(SubSeq(flash_configuration_field_type, 1, k - 1))

RECURSIVE LayOut(_)
LayOut(fields) ==
    IF fields = <<>> THEN <<>>
    ELSE LET f == Head(fields)
             given == flash_config_init[f.name]
         IN  [i \in 1..f.size |-> IF i <= Len(given) THEN given[i] ELSE 0]
             \o LayOut(Tail(fields))

\* the bytes of flash_config as they lie in the image from 0x00000400 on
flash_config == LayOut(flash_configuration_field_type)

(* --------------------------- linker script ----------------------------- *)

ORIGIN_FLASH == 0
ORIGIN_SRAM == 8191 * 65536
LENGTH_SRAM == 256 * 1024
__heap_size__ == 64 * 1024
__stack_size__ == 16 * 1024

\* mutant: the ". = ALIGN(4);" statements are missing
ALIGN_Missing(a, n) == a

\* the linker's ALIGN(n) applied to location counter a
ALIGN(a, n) == ((a + n - 1) \div n) * n

VARIABLES
    data_size,      \* bytes of the *(.data*) input sections
    bss_size,       \* bytes of the *(.bss*) input sections
    flash,          \* load image of .data: word address -> word
    strong,         \* named handlers with a strong definition linked in
    crystal,        \* "ok" | "faulty": whether the crystal ever stabilises
    pc,             \* position of startup()
    reg,            \* peripheral registers startup() writes
    MCG_S,          \* MCG status register, driven by the hardware
    sram,           \* working memory: word address -> word
    flashp,         \* startup()'s local `flash`
    sramp,          \* startup()'s local `sram`
    trace,          \* what startup() has done so far, in order
    exc             \* "thread" | "unused_handler" | "app_handler"

vars == <<data_size, bss_size, flash, strong, crystal, pc, reg, MCG_S, sram,
          flashp, sramp, trace, exc>>

linkvars == <<data_size, bss_size, flash, crystal>>

\* .data output section
__relocate_sram_start__ == ALIGN(ORIGIN_SRAM, 4)
__relocate_sram_end__ == ALIGN(__relocate_sram_start__ + data_size, 4)
\* LOADADDR(.data): with empty .text and .rodata the load image follows the
\* flash configuration field at 0x00000400
__relocate_flash_start__ == ALIGN(ORIGIN_FLASH + 1024 + SizeOfFlashConfig, 4)
\* .bss output section
__bss_start__ == ALIGN(__relocate_sram_end__, 4)
__bss_end__ == ALIGN(__bss_start__ + bss_size, 4)
\* .heap output section
__heap_start__ == ALIGN(__bss_end__, 4)
__heap_end__ == __heap_start__ + __heap_size__
\* .stack output section
__ram_end__ == ORIGIN_SRAM + LENGTH_SRAM
__stack_start__ == __ram_end__ - __stack_size__
__stack_end__ == __stack_start__ + __stack_size__

\* word addresses of [lo, hi)
WordsOf(lo, hi) == {a \in lo..(hi - 1) : (a - lo) % 4 = 0}

\* the modelled part of SRAM: .data, .bss and the first heap word
SramWindow == WordsOf(__relocate_sram_start__, __heap_start__ + 4)
\* the flash words of the .data load image
FlashImage == WordsOf(__relocate_flash_start__,
                      __relocate_flash_start__ + (__relocate_sram_end__ - __relocate_sram_start__))

(* ---------------------------- registers -------------------------------- *)

SMC_PMPROT_AVLLS_Allowed == 2
SMC_PMPROT_ALLS_Allowed == 8
SMC_PMPROT_AVLP_Allowed == 32

RegNames == {"SIM_COPC", "SMC_PMPROT", "OSC_CR", "MCG_C2", "MCG_C1", "MCG_C5",
             "MCG_C6", "SIM_CLKDIV1", "SIM_SOPT2", "SIM_SCGC5"}

\* a register startup() has not written yet holds its reset value
ResetValue == [reset |-> TRUE]

MCG_S_Reset == [OSCINIT0 |-> "NotReady", IREFST |-> "Internal", CLKST |-> "FLL",
                PLLST |-> "FLL", LOCK0 |-> "Unlocked"]

COPC_Value == [COPW |-> "Normal", COPCLKS |-> "Int_1kHz", COPT |-> "Disabled"]
\* mutant: very-low-leakage stop mode is not allowed
PMPROT_Value_NoAVLLS == [value |-> SMC_PMPROT_AVLP_Allowed + SMC_PMPROT_ALLS_Allowed]

PMPROT_Value == [value |-> SMC_PMPROT_AVLP_Allowed + SMC_PMPROT_ALLS_Allowed
                           + SMC_PMPROT_AVLLS_Allowed]
OSC_CR_Value == [ERCLKEN |-> "Enabled", SC2P |-> "Enabled", SC8P |-> "Enabled"]
C2_Value == [RANGE0 |-> "Very_High", HGO0 |-> "Low_Power", EREFS |-> "Oscillator"]
C1_FBE_Value == [CLKS |-> "External", FRDIV |-> "Div_16_512", IREFS |-> "External"]
C5_Value == [PRDIV0 |-> 8]
\* mutant: the PLL multiplier is 24
C6_Value_Div24 == [PLLS |-> "PLL", VDIV0 |-> 24]

C6_Value == [PLLS |-> "PLL", VDIV0 |-> 48]
CLKDIV1_Value == [OUTDIV1 |-> 1, OUTDIV4 |-> 1]
\* mutant: the second MCG->C1 value leaves FRDIV out
C1_PEE_Value_NoFRDIV == [CLKS |-> "FLL_PLL", FRDIV |-> "Div_1_32", IREFS |-> "External"]

C1_PEE_Value == [CLKS |-> "FLL_PLL", FRDIV |-> "Div_16_512", IREFS |-> "External"]
SOPT2_Value == [PLLFLLSEL |-> "MCGPLLCLK_Div2"]
SCGC5_Value == [PORTA |-> "Enabled", PORTB |-> "Enabled", PORTC |-> "Enabled",
                PORTD |-> "Enabled", PORTE |-> "Enabled"]

(* ------------------------------ Init ----------------------------------- *)

\* the state at reset of an image linked without strong handlers
Init ==
    /\ data_size \in 0..MaxDataBytes
    /\ bss_size \in 0..MaxBssBytes
    /\ flash \in [FlashImage -> Words]
    /\ strong = {}
    /\ crystal \in {"ok", "faulty"}
    /\ pc = "copc"
    /\ reg = [r \in RegNames |-> ResetValue]
    /\ MCG_S = MCG_S_Reset
    /\ sram \in [SramWindow -> Words]
    /\ flashp = 0
    /\ sramp = 0
    /\ trace = <<>>
    /\ exc = "thread"

(* ----------------------------- startup() ------------------------------- *)

\* one entry of trace: a register write, a status read that ended a wait
\* loop, a store to SRAM or a call
Event(op, at, val) == [op |-> op, at |-> at, val |-> val]

\* a register write: SIM->COPC = v; and the like
WriteReg(at, r, v, next) ==
    /\ exc = "thread"
    /\ pc = at
    /\ reg' = [reg EXCEPT ![r] = v]
    /\ trace' = Append(trace, Event("write", r, v))
    /\ pc' = next
    /\ UNCHANGED <<linkvars, strong, MCG_S, sram, flashp, sramp, exc>>

\* while ((MCG->S & field_Msk) != value);  one read of MCG->S
Poll(at, field, value, next) ==
    /\ exc = "thread"
    /\ pc = at
    /\ IF MCG_S[field] = value
       THEN /\ pc' = next
            /\ trace' = Append(trace, Event("read", field, value))
       ELSE UNCHANGED <<pc, trace>>
    /\ UNCHANGED <<linkvars, strong, reg, MCG_S, sram, flashp, sramp, exc>>

\* mutant: the watchdog is left running
WriteCOPC_Skipped ==
    /\ exc = "thread"
    /\ pc = "copc"
    /\ pc' = "pmprot"
    /\ UNCHANGED <<linkvars, strong, reg, MCG_S, sram, flashp, sramp, trace, exc>>
WriteCOPC == WriteReg("copc", "SIM_COPC", COPC_Value, "pmprot")
WritePMPROT == WriteReg("pmprot", "SMC_PMPROT", PMPROT_Value, "osc_cr")
WriteOSC_CR == WriteReg("osc_cr", "OSC_CR", OSC_CR_Value, "c2")
WriteC2 == WriteReg("c2", "MCG_C2", C2_Value, "c1_fbe")
WriteC1_FBE == WriteReg("c1_fbe", "MCG_C1", C1_FBE_Value, "wait_oscinit")
\* mutant: the first wait loop falls through whatever MCG->S reads
WaitOSCINIT0_NoWait ==
    /\ exc = "thread"
    /\ pc = "wait_oscinit"
    /\ pc' = "wait_irefst"
    /\ UNCHANGED <<linkvars, strong, reg, MCG_S, sram, flashp, sramp, trace, exc>>
WaitOSCINIT0 == Poll("wait_oscinit", "OSCINIT0", "Ready", "wait_irefst")
WaitIREFST == Poll("wait_irefst", "IREFST", "External", "wait_clkst_ext")
WaitCLKST_External == Poll("wait_clkst_ext", "CLKST", "External", "c5")
WriteC5 == WriteReg("c5", "MCG_C5", C5_Value, "c6")
WriteC6 == WriteReg("c6", "MCG_C6", C6_Value, "wait_pllst")
WaitPLLST == Poll("wait_pllst", "PLLST", "PLL", "wait_lock")
\* mutant: the PLL lock wait loop falls through whatever MCG->S reads
WaitLOCK0_NoWait ==
    /\ exc = "thread"
    /\ pc = "wait_lock"
    /\ pc' = "clkdiv1"
    /\ UNCHANGED <<linkvars, strong, reg, MCG_S, sram, flashp, sramp, trace, exc>>
WaitLOCK0 == Poll("wait_lock", "LOCK0", "Locked", "clkdiv1")
\* mutant: the prescalers are left at their reset values
WriteCLKDIV1_Skipped ==
    /\ exc = "thread"
    /\ pc = "clkdiv1"
    /\ pc' = "c1_pee"
    /\ UNCHANGED <<linkvars, strong, reg, MCG_S, sram, flashp, sramp, trace, exc>>
WriteCLKDIV1 == WriteReg("clkdiv1", "SIM_CLKDIV1", CLKDIV1_Value, "c1_pee")
\* mutant: the second MCG->C1 write repeats the first one's CLKS
WriteC1_PEE_KeepsExternal ==
    WriteReg("c1_pee", "MCG_C1", C1_FBE_Value, "wait_clkst_pll")
WriteC1_PEE == WriteReg("c1_pee", "MCG_C1", C1_PEE_Value, "wait_clkst_pll")
WaitCLKST_PLL == Poll("wait_clkst_pll", "CLKST", "PLL", "sopt2")
WriteSOPT2 == WriteReg("sopt2", "SIM_SOPT2", SOPT2_Value, "scgc5")
WriteSCGC5 == WriteReg("scgc5", "SIM_SCGC5", SCGC5_Value, "data_init")

ClockBringUp ==
    \/ WriteCOPC \/ WritePMPROT \/ WriteOSC_CR \/ WriteC2 \/ WriteC1_FBE
    \/ WaitOSCINIT0 \/ WaitIREFST \/ WaitCLKST_External
    \/ WriteC5 \/ WriteC6 \/ WaitPLLST \/ WaitLOCK0
    \/ WriteCLKDIV1 \/ WriteC1_PEE \/ WaitCLKST_PLL
    \/ WriteSOPT2 \/ WriteSCGC5


(* memory bring-up *)

\* flash = &__relocate_flash_start__; sram = &__relocate_sram_start__;
DataInit ==
    /\ exc = "thread"
    /\ pc = "data_init"
    /\ flashp' = __relocate_flash_start__
    /\ sramp' = __relocate_sram_start__
    /\ pc' = "data_loop"
    /\ UNCHANGED <<linkvars, strong, reg, MCG_S, sram, trace, exc>>

\* mutant: *sram++ = *flash; the source pointer is not advanced
DataLoop_FlashNotAdvanced ==
    /\ exc = "thread"
    /\ pc = "data_loop"
    /\ IF sramp < __relocate_sram_end__
       THEN /\ sram' = [sram EXCEPT ![sramp] = flash[flashp]]
            /\ trace' = Append(trace, Event("store", sramp, flash[flashp]))
            /\ sramp' = sramp + 4
            /\ flashp' = flashp
            /\ pc' = pc
       ELSE /\ pc' = "bss_init"
            /\ UNCHANGED <<sram, trace, sramp, flashp>>
    /\ UNCHANGED <<linkvars, strong, reg, MCG_S, exc>>

\* while (sram < &__relocate_sram_end__) *sram++ = *flash++;
DataLoop ==
    /\ exc = "thread"
    /\ pc = "data_loop"
    /\ IF sramp < __relocate_sram_end__
       THEN /\ sram' = [sram EXCEPT ![sramp] = flash[flashp]]
            /\ trace' = Append(trace, Event("store", sramp, flash[flashp]))
            /\ sramp' = sramp + 4
            /\ flashp' = flashp + 4
            /\ pc' = pc
       ELSE /\ pc' = "bss_init"
            /\ UNCHANGED <<sram, trace, sramp, flashp>>
    /\ UNCHANGED <<linkvars, strong, reg, MCG_S, exc>>

\* mutant: the bss loop is left out
BssInit_SkipsLoop ==
    /\ exc = "thread"
    /\ pc = "bss_init"
    /\ sramp' = __bss_start__
    /\ pc' = "libc_init"
    /\ UNCHANGED <<linkvars, strong, reg, MCG_S, sram, flashp, trace, exc>>

\* sram = &__bss_start__;
BssInit ==
    /\ exc = "thread"
    /\ pc = "bss_init"
    /\ sramp' = __bss_start__
    /\ pc' = "bss_loop"
    /\ UNCHANGED <<linkvars, strong, reg, MCG_S, sram, flashp, trace, exc>>

\* mutant: the loop stops one word before __bss_end__
BssLoop_StopsEarly ==
    /\ exc = "thread"
    /\ pc = "bss_loop"
    /\ IF sramp + 4 < __bss_end__
       THEN /\ sram' = [sram EXCEPT ![sramp] = 0]
            /\ trace' = Append(trace, Event("store", sramp, 0))
            /\ sramp' = sramp + 4
            /\ pc' = pc
       ELSE /\ pc' = "libc_init"
            /\ UNCHANGED <<sram, trace, sramp>>
    /\ UNCHANGED <<linkvars, strong, reg, MCG_S, flashp, exc>>

\* mutant: the loop runs one word past __bss_end__
BssLoop_Overrun ==
    /\ exc = "thread"
    /\ pc = "bss_loop"
    /\ IF sramp <= __bss_end__
       THEN /\ sram' = [sram EXCEPT ![sramp] = 0]
            /\ trace' = Append(trace, Event("store", sramp, 0))
            /\ sramp' = sramp + 4
            /\ pc' = pc
       ELSE /\ pc' = "libc_init"
            /\ UNCHANGED <<sram, trace, sramp>>
    /\ UNCHANGED <<linkvars, strong, reg, MCG_S, flashp, exc>>

\* while (sram < &__bss_end__) *sram++ = 0;
BssLoop ==
    /\ exc = "thread"
    /\ pc = "bss_loop"
    /\ IF sramp < __bss_end__
       THEN /\ sram' = [sram EXCEPT ![sramp] = 0]
            /\ trace' = Append(trace, Event("store", sramp, 0))
            /\ sramp' = sramp + 4
            /\ pc' = pc
       ELSE /\ pc' = "libc_init"
            /\ UNCHANGED <<sram, trace, sramp>>
    /\ UNCHANGED <<linkvars, strong, reg, MCG_S, flashp, exc>>

MemoryBringUp == DataInit \/ DataLoop \/ BssInit \/ BssLoop

(* hand-over to the runtime library and the application; what the callees
   do is not part of this repository *)

\* a call of an external function
Call(at, fn, next) ==
    /\ exc = "thread"
    /\ pc = at
    /\ trace' = Append(trace, Event("call", fn, 0))
    /\ pc' = next
    /\ UNCHANGED <<linkvars, strong, reg, MCG_S, sram, flashp, sramp, exc>>

\* __libc_init_array();
CallLibcInit == Call("libc_init", "__libc_init_array", "main")

\* main();
CallMain == Call("main", "main", "in_main")

\* main() returns and startup() with it
MainReturns ==
    /\ exc = "thread"
    /\ pc = "in_main"
    /\ pc' = "returned"
    /\ UNCHANGED <<linkvars, strong, reg, MCG_S, sram, flashp, sramp, trace, exc>>

HandOver == CallLibcInit \/ CallMain \/ MainReturns

startup == ClockBringUp \/ MemoryBringUp \/ HandOver

(* ------------------------- clock generator ----------------------------- *)

\* bitfield f of register r, "Reset" while startup() has not written r
Field(r, f) == IF f \in DOMAIN reg[r] THEN reg[r][f] ELSE "Reset"

SetStatus(field, value) ==
    /\ MCG_S[field] # value
    /\ MCG_S' = [MCG_S EXCEPT ![field] = value]
    /\ UNCHANGED <<linkvars, strong, pc, reg, sram, flashp, sramp, trace, exc>>

\* the external oscillator starts up once the reference is external
HwOscillatorReady ==
    /\ crystal = "ok"
    /\ Field("MCG_C2", "EREFS") = "Oscillator"
    /\ Field("MCG_C1", "IREFS") = "External"
    /\ SetStatus("OSCINIT0", "Ready")

\* the reference switch takes effect
HwReferenceSwitch ==
    /\ Field("MCG_C1", "IREFS") = "External"
    /\ SetStatus("IREFST", "External")

\* the system clock switch to the external clock takes effect
HwClockExternal ==
    /\ Field("MCG_C1", "CLKS") = "External"
    /\ SetStatus("CLKST", "External")

\* the PLL is selected
HwPllSelected ==
    /\ Field("MCG_C6", "PLLS") = "PLL"
    /\ SetStatus("PLLST", "PLL")

\* the PLL locks on the divided crystal reference
HwPllLocked ==
    /\ crystal = "ok"
    /\ Field("MCG_C6", "PLLS") = "PLL"
    /\ MCG_S.OSCINIT0 = "Ready"
    /\ SetStatus("LOCK0", "Locked")

\* the system clock switch to the PLL output takes effect
HwClockPll ==
    /\ Field("MCG_C1", "CLKS") = "FLL_PLL"
    /\ Field("MCG_C6", "PLLS") = "PLL"
    /\ SetStatus("CLKST", "PLL")

Hardware ==
    \/ HwOscillatorReady \/ HwReferenceSwitch \/ HwClockExternal
    \/ HwPllSelected \/ HwPllLocked \/ HwClockPll

\* the clock generator mode the control values c1 (MCG->C1) and c6 (MCG->C6)
\* command: FEI out of reset, FBE, PBE and PEE as startup()'s comments name
\* them
McgMode(c1, c6) ==
    LET clks == IF "CLKS" \in DOMAIN c1 THEN c1.CLKS ELSE "Reset"
        plls == IF "PLLS" \in DOMAIN c6 THEN c6.PLLS ELSE "Reset"
    IN  IF clks = "Reset" THEN "FEI"
        ELSE IF clks = "External"
             THEN IF plls = "PLL" THEN "PBE" ELSE "FBE"
             ELSE IF plls = "PLL" THEN "PEE" ELSE "FEE"

\* FEI -> FBE -> PBE -> PEE
ModeRank(mode) ==
    CASE mode = "FBE" -> 1
      [] mode = "PBE" -> 2
      [] mode = "PEE" -> 3
      [] OTHER -> 0

\* "Configure the 16MHz external oscillator"
CrystalMHz == 16

\* the clock frequencies in MHz that the values in MCG->C5, MCG->C6 and
\* SIM->CLKDIV1 give: crystal / PRDIV0, times VDIV0, / (OUTDIV1 + 1),
\* / (OUTDIV4 + 1)
PllReferenceMHz == CrystalMHz \div reg["MCG_C5"].PRDIV0
PllOutputMHz == PllReferenceMHz * reg["MCG_C6"].VDIV0
CoreMHz == PllOutputMHz \div (reg["SIM_CLKDIV1"].OUTDIV1 + 1)
BusMHz == CoreMHz \div (reg["SIM_CLKDIV1"].OUTDIV4 + 1)

(* ---------------------------- vector table ---------------------------- *)

\* the handlers declared weak with alias("unused_handler")
NamedHandlers ==
    {"nmi_handler", "hard_fault_handler", "svcall_handler",
     "pendablesrvreq_handler", "systick_handler",
     "dma_channel_0_handler", "dma_channel_1_handler", "dma_channel_2_handler",
     "dma_channel_3_handler", "flash_memory_module_handler",
     "low_voltage_handler", "low_leakage_wakeup_handler", "i2c_0_handler",
     "i2c_1_handler", "spi_0_handler", "spi_1_handler", "uart_0_handler",
     "uart_1_handler", "uart_2_handler", "adc_0_handler", "cmp_0_handler",
     "tpm_0_handler", "tpm_1_handler", "tpm_2_handler", "rtc_alarm_handler",
     "rtc_seconds_handler", "pit_handler", "i2s_0_handler", "usb_otg_handler",
     "dac_0_handler", "tsi_0_handler", "mcg_handler", "lptmr_0_handler",
     "port_a_handler", "port_c_d_handler"}

\* handler_t vectors[48]
NumVectors == 48

\* mutant: element 12 names svcall_handler too
core_vectors_Duplicate ==
    << "__stack_end__", "startup", "nmi_handler", "hard_fault_handler",
       "unused_handler", "unused_handler", "unused_handler", "unused_handler",
       "unused_handler", "unused_handler", "unused_handler", "svcall_handler",
       "svcall_handler", "unused_handler", "pendablesrvreq_handler",
       "systick_handler" >>

\* the initialisers under "Core system handler vectors"
core_vectors ==
    << "__stack_end__", "startup", "nmi_handler", "hard_fault_handler",
       "unused_handler", "unused_handler", "unused_handler", "unused_handler",
       "unused_handler", "unused_handler", "unused_handler", "svcall_handler",
       "unused_handler", "unused_handler", "pendablesrvreq_handler",
       "systick_handler" >>

\* mutant: the initialiser of element 45 is missing
non_core_vectors_OneMissing ==
    << "dma_channel_0_handler", "dma_channel_1_handler", "dma_channel_2_handler",
       "dma_channel_3_handler", "unused_handler", "flash_memory_module_handler",
       "low_voltage_handler", "low_leakage_wakeup_handler", "i2c_0_handler",
       "i2c_1_handler", "spi_0_handler", "spi_1_handler", "uart_0_handler",
       "uart_1_handler", "uart_2_handler", "adc_0_handler", "cmp_0_handler",
       "tpm_0_handler", "tpm_1_handler", "tpm_2_handler", "rtc_alarm_handler",
       "rtc_seconds_handler", "pit_handler", "i2s_0_handler", "usb_otg_handler",
       "dac_0_handler", "tsi_0_handler", "mcg_handler", "lptmr_0_handler",
       "port_a_handler", "port_c_d_handler" >>

\* the initialisers under "Non-core vectors"
non_core_vectors ==
    << "dma_channel_0_handler", "dma_channel_1_handler", "dma_channel_2_handler",
       "dma_channel_3_handler", "unused_handler", "flash_memory_module_handler",
       "low_voltage_handler", "low_leakage_wakeup_handler", "i2c_0_handler",
       "i2c_1_handler", "spi_0_handler", "spi_1_handler", "uart_0_handler",
       "uart_1_handler", "uart_2_handler", "adc_0_handler", "cmp_0_handler",
       "tpm_0_handler", "tpm_1_handler", "tpm_2_handler", "rtc_alarm_handler",
       "rtc_seconds_handler", "pit_handler", "i2s_0_handler", "usb_otg_handler",
       "dac_0_handler", "tsi_0_handler", "mcg_handler", "lptmr_0_handler",
       "unused_handler", "port_a_handler", "port_c_d_handler" >>

\* the symbol each element of vectors[] names; elements without an
\* initialiser are null
vectors ==
    LET given == core_vectors \o non_core_vectors
    IN  [i \in 0..(NumVectors - 1) |-> IF i < Len(given) THEN given[i + 1] ELSE "null"]

\* mutant: the handlers are declared weak without an alias, so an undefined
\* one resolves to null
Resolve_WeakWithoutAlias(sym, linked) ==
    IF sym \in NamedHandlers
    THEN IF sym \in linked THEN sym ELSE "null"
    ELSE sym

\* the definition the linker binds symbol sym to when the strong definitions
\* in `linked` are present: a weak alias gives way to a strong definition
Resolve(sym, linked) ==
    IF sym \in NamedHandlers
    THEN IF sym \in linked THEN sym ELSE "unused_handler"
    ELSE sym

\* the vector table of the linked image
ResolvedVectors == [i \in DOMAIN vectors |-> Resolve(vectors[i], strong)]

\* an application object with a strong definition of handler h is linked in
LinkStrong(h) ==
    /\ pc = "link"
    /\ h \notin strong
    /\ Cardinality(strong) < MaxStrong
    /\ strong' = strong \cup {h}
    /\ UNCHANGED <<linkvars, pc, reg, MCG_S, sram, flashp, sramp, trace, exc>>

\* the processor leaves reset: it loads vectors[0] into the stack pointer and
\* vectors[1] into the program counter
Reset ==
    /\ pc = "link"
    /\ ResolvedVectors[1] = "startup"
    /\ pc' = "copc"
    /\ UNCHANGED <<linkvars, strong, reg, MCG_S, sram, flashp, sramp, trace, exc>>

\* exception number i is taken: core exceptions at any time, peripheral
\* interrupts once the application has enabled them
TakeException(i) ==
    /\ exc = "thread"
    /\ pc # "link"
    /\ i >= 16 => pc = "in_main"
    /\ exc' = ResolvedVectors[i]
    /\ UNCHANGED <<linkvars, strong, pc, reg, MCG_S, sram, flashp, sramp, trace>>

\* mutant: the default handler returns
unused_handler_Returns ==
    /\ exc = "unused_handler"
    /\ exc' = "thread"
    /\ UNCHANGED <<linkvars, strong, pc, reg, MCG_S, sram, flashp, sramp, trace>>

\* static void unused_handler() { for (;;); }
unused_handler ==
    /\ exc = "unused_handler"
    /\ UNCHANGED vars

\* an application's handler returns; what it does is not part of this
\* repository
AppHandlerReturns ==
    /\ exc \in NamedHandlers
    /\ exc' = "thread"
    /\ UNCHANGED <<linkvars, strong, pc, reg, MCG_S, sram, flashp, sramp, trace>>

(* ---------------------------- specifications --------------------------- *)

Next == startup \/ Hardware

\* startup() from reset
Spec == Init /\ [][Next]_vars

\* the state at reset with SRAM holding zeros
InitFair == Init /\ \A a \in SramWindow : sram[a] = 0

\* the processor keeps executing and the clock generator keeps reacting
SpecFair == InitFair /\ [][Next]_vars /\ WF_vars(startup) /\ WF_vars(Hardware)


\* one image on the link line: strong handler definitions are added, then
\* the part is reset
InitLink ==
    /\ data_size = 4
    /\ bss_size = 4
    /\ flash = [a \in FlashImage |-> 1]
    /\ strong = {}
    /\ crystal = "ok"
    /\ pc = "link"
    /\ reg = [r \in RegNames |-> ResetValue]
    /\ MCG_S = MCG_S_Reset
    /\ sram = [a \in SramWindow |-> 1]
    /\ flashp = 0
    /\ sramp = 0
    /\ trace = <<>>
    /\ exc = "thread"

NextLink ==
    \/ \E h \in NamedHandlers : LinkStrong(h)
    \/ Reset
    \/ startup
    \/ Hardware
    \/ \E i \in 2..(NumVectors - 1) : TakeException(i)
    \/ unused_handler
    \/ AppHandlerReturns

\* link, reset, startup() and exceptions
SpecLink == InitLink /\ [][NextLink]_vars

\* the linker's check of "> SRAM": the location counter of the region, which
\* .heap leaves at __heap_end__, stays within ORIGIN(SRAM) + LENGTH(SRAM);
\* the script states no other condition (no ASSERT)
FitsSRAM == __heap_end__ <= ORIGIN_SRAM + LENGTH_SRAM

\* the size of the large input sections linked in one step
BlockBytes == 16 * 1024

\* an object file with a .data input section of BlockBytes is linked in
LinkData ==
    /\ pc = "link"
    /\ data_size' = data_size + BlockBytes
    /\ UNCHANGED <<bss_size, flash, crystal, strong, pc, reg, MCG_S, sram,
                   flashp, sramp, trace, exc>>
    /\ FitsSRAM'

\* an object file with a .bss input section of BlockBytes is linked in
LinkBss ==
    /\ pc = "link"
    /\ bss_size' = bss_size + BlockBytes
    /\ UNCHANGED <<data_size, flash, crystal, strong, pc, reg, MCG_S, sram,
                   flashp, sramp, trace, exc>>
    /\ FitsSRAM'

\* the link line before any large section is added; memory contents are
\* not part of the layout
InitLayout ==
    /\ data_size \in 0..MaxDataBytes
    /\ bss_size \in 0..MaxBssBytes
    /\ flash = <<>>
    /\ strong = {}
    /\ crystal = "ok"
    /\ pc = "link"
    /\ reg = [r \in RegNames |-> ResetValue]
    /\ MCG_S = MCG_S_Reset
    /\ sram = <<>>
    /\ flashp = 0
    /\ sramp = 0
    /\ trace = <<>>
    /\ exc = "thread"

NextLayout == LinkData \/ LinkBss

\* the memory layout for growing .data and .bss
SpecLayout == InitLayout /\ [][NextLayout]_vars

(* ------------------------------ claims --------------------------------- *)

\* positions of trace holding an event of kind op at `at`
At(op, at) == {i \in 1..Len(trace) : trace[i].op = op /\ trace[i].at = at}
Stores == {i \in 1..Len(trace) : trace[i].op = "store"}
CallsMade == {i \in 1..Len(trace) : trace[i].op = "call"}
RegWrites == {i \in 1..Len(trace) : trace[i].op = "write"}
StatusReads == {i \in 1..Len(trace) : trace[i].op = "read"}

DataWords == WordsOf(__relocate_sram_start__, __relocate_sram_end__)
BssWords == WordsOf(__bss_start__, __bss_end__)

\* startup() is about to call __libc_init_array() or main()
AtCall == pc \in {"libc_init", "main"}

\* C1: with a crystal that stabilises and a clock generator that keeps
\* reacting, startup() leaves all six wait loops, and when it leaves the last
\* one MCG->S reports PLLST = PLL and LOCK0 = Locked.
C1_ClockBringUpTerminates ==
    /\ [](crystal = "ok" => <>(Cardinality(StatusReads) = 6))
    /\ [](pc = "sopt2" => MCG_S.PLLST = "PLL" /\ MCG_S.LOCK0 = "Locked")

C1_Witness ==
    /\ crystal = "ok"
    /\ pc = "sopt2"
    /\ Cardinality(StatusReads) = 6
    /\ trace[Len(trace)] = Event("read", "CLKST", "PLL")

\* C2: while OSCINIT0 has not been read as Ready, startup() is at or before
\* the first wait loop: no write of C5, C6, CLKDIV1, SOPT2, SCGC5, no second
\* write of C1, no store to SRAM and no call; and with a crystal that never
\* stabilises OSCINIT0 is never Ready, so this is for ever.
C2_StuckInFirstWait ==
    /\ crystal = "faulty" =>
          /\ MCG_S.OSCINIT0 = "NotReady"
          /\ pc \in {"copc", "pmprot", "osc_cr", "c2", "c1_fbe", "wait_oscinit"}
    /\ At("read", "OSCINIT0") = {} =>
          /\ \A r \in {"MCG_C5", "MCG_C6", "SIM_CLKDIV1", "SIM_SOPT2", "SIM_SCGC5"} :
                At("write", r) = {}
          /\ Cardinality(At("write", "MCG_C1")) <= 1
          /\ Stores = {}
          /\ CallsMade = {}

C2_Witness ==
    /\ crystal = "faulty"
    /\ pc = "wait_oscinit"
    /\ MCG_S.IREFST = "External"
    /\ MCG_S.CLKST = "External"

\* C3: when startup() calls __libc_init_array() and main(), every word of
\* [__relocate_sram_start__, __relocate_sram_end__) equals the flash word at
\* the same offset from __relocate_flash_start__.
C3_DataCopied ==
    AtCall =>
        \A a \in DataWords :
            sram[a] = flash[__relocate_flash_start__ + (a - __relocate_sram_start__)]

C3_Witness ==
    /\ pc = "main"
    /\ Cardinality(DataWords) >= 2
    /\ BssWords # {}
    /\ \E a, b \in DataWords : sram[a] # sram[b]

\* C4: when startup() calls __libc_init_array() and main(), every word of
\* [__bss_start__, __bss_end__) is zero.
C4_BssZeroed == AtCall => \A a \in BssWords : sram[a] = 0

C4_Witness ==
    /\ pc = "libc_init"
    /\ Cardinality(BssWords) >= 2
    /\ \A a \in BssWords : \E i \in Stores : trace[i].at = a
    /\ \E a \in DataWords : sram[a] # 0

\* C5: the phases come in the order clock bring-up, data copy, bss zeroing,
\* __libc_init_array(), main(): the stores follow the CLKST = PLL read and
\* the port clock gate write, data stores precede bss stores, the one call of
\* __libc_init_array() follows every store of both loops, and the at most
\* one call of main() follows it directly.
C5_PhaseOrder ==
    /\ \A i \in Stores :
          /\ \E j \in At("read", "CLKST") : j < i /\ trace[j].val = "PLL"
          /\ \E j \in At("write", "SIM_SCGC5") : j < i
          /\ \A j \in RegWrites \cup StatusReads : j < i
          /\ \A j \in Stores :
                (trace[i].at \in BssWords /\ trace[j].at \in DataWords) => j < i
    /\ Cardinality(At("call", "__libc_init_array")) <= 1
    /\ Cardinality(At("call", "main")) <= 1
    /\ \A i \in At("call", "__libc_init_array") :
          /\ \A j \in Stores : j < i
          /\ {trace[j].at : j \in Stores} = DataWords \cup BssWords
          /\ At("call", "main") \subseteq {i + 1}
    /\ \A i \in At("call", "main") : At("call", "__libc_init_array") = {i - 1}
    /\ \A i \in CallsMade : \A j \in RegWrites \cup StatusReads \cup Stores : j < i

C5_Witness ==
    /\ pc = "in_main"
    /\ At("call", "main") # {}
    /\ DataWords # {}
    /\ BssWords # {}


\* C6: every element of vectors[] other than 0, 1 and those naming a weak
\* handler is bound to unused_handler; and with no strong definition linked
\* every element 2..47 resolves to unused_handler.
C6_DefaultHandlerEverywhere ==
    /\ \A i \in DOMAIN vectors \ {0, 1} :
          vectors[i] \notin NamedHandlers => ResolvedVectors[i] = "unused_handler"
    /\ strong = {} =>
          \A i \in 2..47 : ResolvedVectors[i] = "unused_handler"

C6_Witness ==
    /\ strong = {}
    /\ pc = "in_main"
    /\ exc = "unused_handler"

\* C7: vectors[] has exactly 48 elements, 16 core exception slots and 32
\* peripheral interrupt slots, each with an initialiser; element 0 is
\* &__stack_end__ and element 1 is startup.
C7_TableShape ==
    /\ DOMAIN ResolvedVectors = 0..47
    /\ Len(core_vectors) = 16
    /\ Len(non_core_vectors) = 32
    /\ \A i \in DOMAIN ResolvedVectors : ResolvedVectors[i] # "null"
    /\ \A i \in 0..15 : vectors[i] = core_vectors[i + 1]
    /\ \A i \in 16..47 : vectors[i] = non_core_vectors[i - 15]
    /\ ResolvedVectors[0] = "__stack_end__"
    /\ ResolvedVectors[1] = "startup"

C7_Witness ==
    /\ strong # {}
    /\ pc = "copc"
    /\ ResolvedVectors[1] = "startup"

\* C8: once in unused_handler the processor stays there: the handler never
\* returns and nothing the processor writes (registers, SRAM, startup()'s
\* position and locals, the trace) changes any more.
C8_DefaultHandlerStalls ==
    [][exc = "unused_handler" =>
          /\ exc' = "unused_handler"
          /\ UNCHANGED <<pc, reg, sram, flashp, sramp, trace, strong>>]_vars

C8_Witness ==
    /\ exc = "unused_handler"
    /\ pc = "wait_lock"
    /\ MCG_S.LOCK0 = "Locked"

\* C9: linking a strong definition of one named handler changes the resolved
\* target of exactly one element of vectors[], the one naming that handler,
\* to that definition; every other element keeps its target.
C9_OverrideChangesOneEntry ==
    [][strong' # strong =>
          LET changed == {i \in DOMAIN vectors : ResolvedVectors[i] # ResolvedVectors'[i]}
          IN  /\ Cardinality(changed) = 1
              /\ \A i \in changed :
                    /\ vectors[i] \in strong' \ strong
                    /\ ResolvedVectors'[i] = vectors[i]]_vars

C9_Witness ==
    /\ strong = {"svcall_handler"}
    /\ ResolvedVectors[11] = "svcall_handler"
    /\ \A i \in 2..47 : i # 11 => ResolvedVectors[i] = "unused_handler"

\* the members of the flash configuration field in order: an 8-byte key, a
\* 4-byte protection bitmap, the security byte, the options byte and two
\* reserved bytes
C10_FieldsInOrder ==
    /\ [k \in 1..Len(flash_configuration_field_type) |->
           flash_configuration_field_type[k].name]
         = <<"backdoor_comparison_key", "FPROT", "FSEC", "FOPT", "reserved0", "reserved1">>
    /\ [k \in 1..Len(flash_configuration_field_type) |->
           flash_configuration_field_type[k].size]
         = <<8, 4, 1, 1, 1, 1>>
    /\ [k \in 1..Len(flash_configuration_field_type) |-> OffsetOfField(k)]
         = <<0, 8, 12, 13, 14, 15>>

\* C10 (as amended): in the image the part runs from, the flash
\* configuration field is a 16-byte record made of, in order, an 8-byte backdoor comparison key, a 4-byte protection
\* bitmap, a security byte, an options byte and 2 reserved bytes; the sizes
\* of the members of flash_configuration_field_type add up to 16.
C10_FlashConfigLayout ==
    pc # "link" =>
        /\ C10_FieldsInOrder
        /\ SizeOfFlashConfig = 16
        /\ Len(flash_config) = 16
        /\ flash_config[OffsetOfField(3) + 1] = 254
        /\ flash_config[OffsetOfField(4) + 1] = 251

C10_Witness ==
    /\ pc = "copc"
    /\ Len(flash_config) = 16
    /\ __relocate_flash_start__ = 1024 + 16

\* C10 (as claimed): the same members, adding up to an 18-byte record.
C10_Original ==
    pc # "link" =>
        /\ C10_FieldsInOrder
        /\ SizeOfFlashConfig = 18
        /\ Len(flash_config) = 18


\* the value of register r after the first k entries of trace
RegAfter(r, k) ==
    LET ws == {i \in At("write", r) : i <= k}
    IN  IF ws = {} THEN ResetValue
        ELSE trace[CHOOSE i \in ws : \A j \in ws : j <= i].val

ModeAfter(k) == McgMode(RegAfter("MCG_C1", k), RegAfter("MCG_C6", k))

\* the status reads that ended a wait loop, in order
ReadsInOrder ==
    LET reads == SelectSeq(trace, LAMBDA e : e.op = "read")
    IN  [k \in 1..Len(reads) |-> <<reads[k].at, reads[k].val>>]

PollOrder ==
    << <<"OSCINIT0", "Ready">>, <<"IREFST", "External">>, <<"CLKST", "External">>,
       <<"PLLST", "PLL">>, <<"LOCK0", "Locked">>, <<"CLKST", "PLL">> >>

\* C11: the six polls are passed in the order OSCINIT0, IREFST, CLKST
\* external, PLLST, LOCK0, CLKST PLL; MCG->C6 is written only after CLKST
\* external has been read, CLKS = FLL_PLL is written only after PLLST and
\* LOCK0 have been read, and no write moves the commanded mode back along
\* FEI -> FBE -> PBE -> PEE.
C11_PollsGateAndModeForward ==
    /\ Len(ReadsInOrder) <= Len(PollOrder)
    /\ ReadsInOrder = SubSeq(PollOrder, 1, Len(ReadsInOrder))
    /\ \A i \in At("write", "MCG_C6") :
          \E j \in At("read", "CLKST") : j < i /\ trace[j].val = "External"
    /\ \A i \in At("write", "MCG_C1") :
          trace[i].val.CLKS = "FLL_PLL" =>
              /\ \E j \in At("read", "PLLST") : j < i
              /\ \E j \in At("read", "LOCK0") : j < i
    /\ \A k \in 1..Len(trace) :
          ModeRank(ModeAfter(k - 1)) <= ModeRank(ModeAfter(k))

C11_Witness ==
    /\ pc = "scgc5"
    /\ ModeAfter(Len(trace)) = "PEE"
    /\ Len(ReadsInOrder) = 6
    /\ \E k \in 1..Len(trace) : ModeAfter(k) = "PBE"


\* SIM->CLKDIV1 holds OUTDIV1 = 1 and OUTDIV4 = 1
DividersProgrammed ==
    /\ DOMAIN reg["SIM_CLKDIV1"] = {"OUTDIV1", "OUTDIV4"}
    /\ reg["SIM_CLKDIV1"].OUTDIV1 = 1
    /\ reg["SIM_CLKDIV1"].OUTDIV4 = 1

\* C12: SIM->CLKDIV1 is written after LOCK0 has been read as locked and
\* before CLKS = FLL_PLL is written, so whenever CLKS = FLL_PLL is commanded
\* or CLKST = PLL has been read, CLKDIV1 holds OUTDIV1 = 1 and OUTDIV4 = 1.
C12_DividersBeforeSwitch ==
    /\ \A i \in At("write", "SIM_CLKDIV1") :
          /\ \E j \in At("read", "LOCK0") : j < i
          /\ \A j \in At("write", "MCG_C1") :
                trace[j].val.CLKS = "FLL_PLL" => i < j
    /\ Field("MCG_C1", "CLKS") = "FLL_PLL" => DividersProgrammed
    /\ (\E j \in At("read", "CLKST") : trace[j].val = "PLL") => DividersProgrammed

C12_Witness ==
    /\ pc = "wait_clkst_pll"
    /\ Field("MCG_C1", "CLKS") = "FLL_PLL"
    /\ MCG_S.CLKST = "External"
    /\ DividersProgrammed

\* the wait loops and the memory loops of startup()
LoopPositions ==
    {"wait_oscinit", "wait_irefst", "wait_clkst_ext", "wait_pllst", "wait_lock",
     "wait_clkst_pll", "data_loop", "bss_loop"}

\* C13: the write of SIM->COPC with COPT = Disabled is the first thing
\* startup() does; in every wait loop and memory loop the watchdog is
\* disabled, and no later write enables it again.
C13_WatchdogDisabledFirst ==
    /\ trace # <<>> =>
          /\ trace[1].op = "write"
          /\ trace[1].at = "SIM_COPC"
          /\ trace[1].val.COPT = "Disabled"
    /\ pc # "copc" => trace # <<>>
    /\ \A i \in At("write", "SIM_COPC") : trace[i].val.COPT = "Disabled"
    /\ pc \in LoopPositions => Field("SIM_COPC", "COPT") = "Disabled"

C13_Witness ==
    /\ pc = "bss_loop"
    /\ sramp < __bss_end__
    /\ Field("SIM_COPC", "COPT") = "Disabled"
    /\ Cardinality(At("write", "SIM_COPC")) = 1


\* C14: for every size of the .data and .bss input sections the four region
\* symbols are multiples of 4, each region has start <= end and .data ends
\* at or before .bss starts; each word loop of startup() stops with its
\* pointer exactly at the region end and stores only below it.
C14_RegionsWordAligned ==
    /\ \A s \in {__relocate_sram_start__, __relocate_sram_end__,
                 __bss_start__, __bss_end__} : s % 4 = 0
    /\ __relocate_sram_start__ <= __relocate_sram_end__
    /\ __relocate_sram_end__ <= __bss_start__
    /\ __bss_start__ <= __bss_end__
    /\ __relocate_sram_end__ - __relocate_sram_start__ >= data_size
    /\ __bss_end__ - __bss_start__ >= bss_size
    /\ pc = "data_loop" => sramp <= __relocate_sram_end__
    /\ pc = "bss_init" => sramp = __relocate_sram_end__
    /\ pc = "bss_loop" => sramp <= __bss_end__
    /\ pc = "libc_init" => sramp = __bss_end__
    /\ \A i \in Stores :
          \/ trace[i].at < __relocate_sram_end__
          \/ __bss_start__ <= trace[i].at /\ trace[i].at < __bss_end__

C14_Witness ==
    /\ pc = "libc_init"
    /\ data_size % 4 # 0
    /\ bss_size % 4 # 0
    /\ bss_size > 4
    /\ sramp = __bss_end__

\* C15: memory bring-up stores only inside the two regions: no step changes
\* an SRAM word outside [__relocate_sram_start__, __relocate_sram_end__) and
\* [__bss_start__, __bss_end__), every store goes to a word of a region and
\* at most one to each, the data stores precede the bss stores, and an empty
\* region gets no store.
C15_OnlyRegionsWritten ==
    /\ [](/\ \A i \in Stores : trace[i].at \in DataWords \cup BssWords
          /\ Cardinality(Stores) <= Cardinality(DataWords) + Cardinality(BssWords)
          /\ \A i, j \in Stores :
                (trace[i].at \in DataWords /\ trace[j].at \in BssWords) => i < j
          /\ (\E i \in Stores : trace[i].at \in BssWords) =>
                \A a \in DataWords : \E i \in Stores : trace[i].at = a)
    /\ [][\A a \in DOMAIN sram :
              sram'[a] # sram[a] => a \in DataWords \cup BssWords]_vars

C15_Witness ==
    /\ pc = "libc_init"
    /\ DataWords = {}
    /\ Cardinality(BssWords) = 2
    /\ Cardinality(Stores) = 2
    /\ sram[__heap_start__] # 0

\* C16: SMC->PMPROT is written exactly once, before any write of an MCG
\* control register and before any write of SMC->PMCTRL, with the value
\* 0x2A: exactly the three allow bits 5, 3 and 1, one from each constant.
C16_PowerModesUnlockedOnce ==
    /\ Cardinality(At("write", "SMC_PMPROT")) <= 1
    /\ pc \notin {"copc", "pmprot"} => Cardinality(At("write", "SMC_PMPROT")) = 1
    /\ \A i \in At("write", "SMC_PMPROT") :
          /\ trace[i].val.value = 42
          /\ {b \in 0..7 : (trace[i].val.value \div (2 ^ b)) % 2 = 1} = {1, 3, 5}
          /\ reg["SMC_PMPROT"] = trace[i].val
    /\ \A j \in RegWrites :
          trace[j].at \in {"MCG_C1", "MCG_C2", "MCG_C5", "MCG_C6", "SMC_PMCTRL"} =>
              \E i \in At("write", "SMC_PMPROT") : i < j
    /\ {SMC_PMPROT_AVLP_Allowed, SMC_PMPROT_ALLS_Allowed, SMC_PMPROT_AVLLS_Allowed}
          = {2 ^ 5, 2 ^ 3, 2 ^ 1}

C16_Witness ==
    /\ pc = "osc_cr"
    /\ reg["SMC_PMPROT"] = [value |-> 42]
    /\ At("write", "MCG_C1") = {}


\* C17: the stack is the last 16K of RAM (__stack_end__ = __ram_end__ =
\* 0x20030000, __stack_start__ = __ram_end__ - 16K), and for every size of
\* .data and .bss the 64K heap starts at or after __bss_end__ and ends at or
\* before __stack_start__: data, bss, heap and stack do not overlap.
C17_HeapBelowStack ==
    /\ __stack_end__ = __ram_end__
    /\ __ram_end__ = 8195 * 65536
    /\ __stack_start__ = __ram_end__ - 16 * 1024
    /\ __heap_end__ - __heap_start__ = 64 * 1024
    /\ __relocate_sram_end__ <= __bss_start__
    /\ __bss_end__ <= __heap_start__
    /\ __heap_end__ <= __stack_start__


\* C18: the second value written to MCG->C1 differs from the first only in
\* CLKS (External, then FLL_PLL), FRDIV and IREFS being the same; and after
\* LOCK0 has been read as locked no write goes to MCG->C2, C5 or C6.
C18_SecondC1WriteChangesOnlyCLKS ==
    /\ Cardinality(At("write", "MCG_C1")) <= 2
    /\ \A i, j \in At("write", "MCG_C1") :
          i < j =>
              /\ DOMAIN trace[i].val = DOMAIN trace[j].val
              /\ \A f \in DOMAIN trace[i].val \ {"CLKS"} :
                    trace[i].val[f] = trace[j].val[f]
              /\ trace[i].val.CLKS = "External"
              /\ trace[j].val.CLKS = "FLL_PLL"
    /\ \A i \in At("read", "LOCK0") :
          \A j \in RegWrites :
              i < j => trace[j].at \notin {"MCG_C2", "MCG_C5", "MCG_C6"}
    /\ pc \in {"in_main", "returned"} => Cardinality(At("write", "MCG_C1")) = 2

C18_Witness ==
    /\ pc = "in_main"
    /\ Cardinality(At("write", "MCG_C1")) = 2
    /\ reg["MCG_C1"].FRDIV = "Div_16_512"
    /\ reg["MCG_C1"].IREFS = "External"

\* C19: with the 16 MHz crystal the programmed values give a PLL reference
\* of 16 / 8 = 2 MHz, a PLL output of 2 * 48 = 96 MHz, a core clock of
\* 96 / (OUTDIV1 + 1) = 48 MHz and a bus/flash clock of
\* 48 / (OUTDIV4 + 1) = 24 MHz, with OUTDIV1 = OUTDIV4 = 1.
C19_ClockFrequencies ==
    At("write", "SIM_CLKDIV1") # {} =>
        /\ CrystalMHz % reg["MCG_C5"].PRDIV0 = 0
        /\ PllReferenceMHz = 2
        /\ PllOutputMHz = 96
        /\ reg["SIM_CLKDIV1"].OUTDIV1 = 1
        /\ reg["SIM_CLKDIV1"].OUTDIV4 = 1
        /\ CoreMHz = 48
        /\ BusMHz = 24

C19_Witness ==
    /\ pc = "sopt2"
    /\ MCG_S.CLKST = "PLL"
    /\ CoreMHz = 48
    /\ BusMHz = 24

=============================================================================
